---- MODULE Spec2Model ----
(***************************************************************************)
(* Model of the feature-engineering core of Prometheus_Tennis              *)
(* (src/src/features/build_features.py): the three aggregators that turn a *)
(* table of match rows into head-to-head, career and recent-form tables.   *)
(*                                                                         *)
(* A DataFrame is a sequence of rows (records); a missing cell (NaN, NaT)  *)
(* is the value NULL.  A float is an exact fraction [n, d] in lowest terms *)
(* with d > 0; d = 0 encodes the IEEE results of a division by zero        *)
(* (0/0 = NaN, x/0 = +-inf), which numpy returns without raising.          *)
(* The winner_name / loser_name columns feed only the name columns of the  *)
(* output tables and are left out.                                         *)
(***************************************************************************)
EXTENDS Integers, Sequences, FiniteSets

VARIABLES df, h2h, stats, recent, raised,
          fs, dl,
          missing, force, caller, phase, store, invoked, loaded, log,
          proc, h5, handles, writers

featureVars == <<df, h2h, stats, recent, raised>>
downloadVars == <<fs, dl>>
cacheVars == <<missing, force, caller, phase, store, invoked, loaded, log>>
writeVars == <<proc, h5, handles, writers>>
vars == <<featureVars, downloadVars, cacheVars, writeVars>>

\* ------------------------------------------------------------------ bounds
MaxMatches == 3
MaxN == 2
\* chunks in a response body
MaxChunks == 2
\* calls of build_all_features in one behaviour
MaxCalls == 2

\* ------------------------------------------------------- program constants
max_years_gap == 2
DaysPerYear == 365

\* ------------------------------------------------------------ value domains
NULL == 0 - 1
\* a table variable before its builder has run (None) and after
NotBuilt == [built |-> FALSE, rows |-> {}]
Table(rows) == [built |-> TRUE, rows |-> rows]

PlayerIds == {1, 2, 3}
\* dates are day numbers; a look-back of max_years_gap years is 730 days
Dates == {0, 400, 800}
HardSlam == [surface |-> "Hard", tourney_level |-> "G"]
HardMasters == [surface |-> "Hard", tourney_level |-> "M"]
ClayMasters == [surface |-> "Clay", tourney_level |-> "M"]
ClayOther == [surface |-> "Clay", tourney_level |-> "A"]
GrassOther == [surface |-> "Grass", tourney_level |-> "A"]
Tourneys == {HardSlam, HardMasters, ClayMasters}

RegularServe ==
    [ace |-> 2, df |-> 1, svpt |-> 10, 1stIn |-> 6, 1stWon |-> 4, 2ndWon |-> 2,
     SvGms |-> 2, bpSaved |-> 1, bpFaced |-> 2]
NoServe ==
    [ace |-> 0, df |-> 0, svpt |-> 0, 1stIn |-> 0, 1stWon |-> 0, 2ndWon |-> 0,
     SvGms |-> 0, bpSaved |-> 0, bpFaced |-> 0]
AceNoGames ==
    [ace |-> 1, df |-> 0, svpt |-> 1, 1stIn |-> 1, 1stWon |-> 1, 2ndWon |-> 0,
     SvGms |-> 0, bpSaved |-> 0, bpFaced |-> 0]
Profiles == {RegularServe, NoServe, AceNoGames}

\* --------------------------------------------------------------- match rows
\* One row of the match table: the columns the aggregators read.
Match(w, l, date, t, wp, lp) ==
    [winner_id |-> w, loser_id |-> l, tourney_date |-> date,
     surface |-> t.surface, tourney_level |-> t.tourney_level,
     w_ace |-> wp.ace, w_df |-> wp.df, w_svpt |-> wp.svpt, w_1stIn |-> wp.1stIn,
     w_1stWon |-> wp.1stWon, w_2ndWon |-> wp.2ndWon, w_SvGms |-> wp.SvGms,
     w_bpSaved |-> wp.bpSaved, w_bpFaced |-> wp.bpFaced,
     l_ace |-> lp.ace, l_df |-> lp.df, l_svpt |-> lp.svpt, l_1stIn |-> lp.1stIn,
     l_1stWon |-> lp.1stWon, l_2ndWon |-> lp.2ndWon, l_SvGms |-> lp.SvGms,
     l_bpSaved |-> lp.bpSaved, l_bpFaced |-> lp.bpFaced]

\* Input slices.  Every row satisfies the MatchRecord invariant (two
\* distinct players, a valid date); each slice varies one group of columns.
PairRows ==
    { Match(p[1], p[2], 800, HardSlam, RegularServe, RegularServe) :
        p \in {q \in PlayerIds \X PlayerIds : q[1] # q[2]} }
ContextRows ==
    { Match(p[1], p[2], d, t, RegularServe, RegularServe) :
        p \in {<<1, 2>>, <<2, 1>>}, d \in Dates, t \in Tourneys }
CounterRows ==
    { Match(1, 2, 800, GrassOther, wp, lp) : wp \in Profiles, lp \in Profiles }

\* The end-to-end scenario: A beats B on Hard (2024-01-01), B beats A on Clay
\* (2024-02-01), A beats C on Hard (2024-03-01); A, B, C = 1, 2, 3.
Scenario ==
    << Match(1, 2, 0, HardSlam, RegularServe, RegularServe),
       Match(2, 1, 31, ClayOther, RegularServe, RegularServe),
       Match(1, 3, 60, HardSlam, RegularServe, RegularServe) >>

Tables(rows) == UNION { [1..n -> rows] : n \in 0..MaxMatches }
Datasets ==
    Tables(PairRows) \cup Tables(ContextRows) \cup Tables(CounterRows) \cup {Scenario}

\* Rows as they are before any validation: a player id or the date may be
\* missing.  A raw table has at least one row with both ids.
RawRows ==
    { Match(p[1], p[2], d, HardSlam, RegularServe, RegularServe) :
        p \in {q \in {1, 2, NULL} \X {1, 2, NULL} : q[1] # q[2] \/ q[1] = NULL},
        d \in {400, 800, NULL} }
RawDatasets ==
    { t \in Tables(RawRows) :
        \E i \in DOMAIN t : t[i].winner_id # NULL /\ t[i].loser_id # NULL }

\* ------------------------------------------------------------------ floats
Abs(x) == IF x < 0 THEN 0 - x ELSE x
Sign(x) == IF x < 0 THEN 0 - 1 ELSE IF x > 0 THEN 1 ELSE 0

RECURSIVE GCD(_, _)
GCD(a, b) == IF b = 0 THEN a ELSE GCD(b, a % b)

NaN == [n |-> 0, d |-> 0]
Inf == [n |-> 1, d |-> 0]
Zero == [n |-> 0, d |-> 1]
One == [n |-> 1, d |-> 1]

\* numpy true division a / b of two finite numbers a, b (integers here).
Div(a, b) ==
    IF b = 0 THEN [n |-> Sign(a), d |-> 0]
    ELSE LET g == GCD(Abs(a), Abs(b))
         IN  [n |-> (Sign(b) * a) \div g, d |-> Abs(b) \div g]

IsNaN(v) == v.d = 0 /\ v.n = 0
IsFinite(v) == v.d > 0
Add(u, v) == Div(u.n * v.d + v.n * u.d, u.d * v.d)

\* ------------------------------------------------------------ seq helpers
RECURSIVE SumOver(_, _)
\* sum of the column col over the rows of s
SumOver(s, col) ==
    IF s = <<>> THEN 0 ELSE s[1][col] + SumOver(Tail(s), col)

\* Series.mean(): NaN over an empty selection
Mean(s, col) == IF s = <<>> THEN NaN ELSE Div(SumOver(s, col), Len(s))

\* -------------------------------------------------- build_head_to_head_features
IsNull(x) == x = NULL

\* mutant of Sorted2: the pair is stored in (winner, loser) order
Unsorted2(a, b) == <<a, b>>

\* sorted([a, b]): Python swaps only when b < a, and NaN compares False
Sorted2(a, b) ==
    IF ~IsNull(a) /\ ~IsNull(b) /\ b < a THEN <<b, a>> ELSE <<a, b>>

matchups(d) ==
    [i \in DOMAIN d |->
        LET p == Sorted2(d[i].winner_id, d[i].loser_id)
        IN  [player1_id |-> p[1], player2_id |-> p[2], winner_id |-> d[i].winner_id]]

\* groupby keys; groupby drops the rows whose key holds a NaN
PairKeys(ms) ==
    { <<ms[i].player1_id, ms[i].player2_id>> :
        i \in {j \in DOMAIN ms : ~IsNull(ms[j].player1_id) /\ ~IsNull(ms[j].player2_id)} }

\* the group of one key, rows in their original order
PairGroup(ms, k) ==
    LET InGroup(m) == m.player1_id = k[1] /\ m.player2_id = k[2]
    IN  SelectSeq(ms, InGroup)

\* ('p1_wins', lambda x: (x == x.iloc[0]).sum())
p1_wins_agg(x) == Cardinality({i \in DOMAIN x : x[i].winner_id = x[1].winner_id})
\* ('p2_wins', lambda x: (x == x.iloc[-1]).sum())
p2_wins_agg(x) == Cardinality({i \in DOMAIN x : x[i].winner_id = x[Len(x)].winner_id})

h2h_row(ms, k) ==
    LET x == PairGroup(ms, k)
        total == Len(x)
        w1 == p1_wins_agg(x)
        w2 == p2_wins_agg(x)
    IN  [player1_id |-> k[1], player2_id |-> k[2], total_matches |-> total,
         p1_wins |-> w1, p2_wins |-> w2,
         p1_win_pct |-> Div(w1, total), p2_win_pct |-> Div(w2, total)]

build_head_to_head_features(d) ==
    LET ms == matchups(d) IN { h2h_row(ms, k) : k \in PairKeys(ms) }

\* ------------------------------------------------- build_player_overall_stats
\* wins / losses frames of the career aggregator, renamed to common columns
career_win(m) ==
    [player_id |-> m.winner_id, surface |-> m.surface, level |-> m.tourney_level,
     aces |-> m.w_ace, dfs |-> m.w_df, serve_pts |-> m.w_svpt, first_in |-> m.w_1stIn,
     first_won |-> m.w_1stWon, second_won |-> m.w_2ndWon, serve_games |-> m.w_SvGms,
     bp_saved |-> m.w_bpSaved, bp_faced |-> m.w_bpFaced, won |-> 1]
career_loss(m) ==
    [player_id |-> m.loser_id, surface |-> m.surface, level |-> m.tourney_level,
     aces |-> m.l_ace, dfs |-> m.l_df, serve_pts |-> m.l_svpt, first_in |-> m.l_1stIn,
     first_won |-> m.l_1stWon, second_won |-> m.l_2ndWon, serve_games |-> m.l_SvGms,
     bp_saved |-> m.l_bpSaved, bp_faced |-> m.l_bpFaced, won |-> 0]

\* mutant of career_all_matches: the losses frame is left out of the concat
career_wins_only(d) == [i \in DOMAIN d |-> career_win(d[i])]

\* all_matches = pd.concat([wins, losses])
career_all_matches(d) ==
    [i \in DOMAIN d |-> career_win(d[i])] \o [i \in DOMAIN d |-> career_loss(d[i])]

\* groupby('player_id'): the keys (NaN keys are dropped) and one group
GroupKeys(all) == { all[i].player_id : i \in DOMAIN all } \ {NULL}
PlayerGroup(all, p) ==
    LET Mine(o) == o.player_id = p IN SelectSeq(all, Mine)

Where(s, col, value) ==
    LET Hit(o) == o[col] = value IN SelectSeq(s, Hit)

\* mutant of NaNToZero: the division-by-zero pass is missing
NaNKept(v) == v

\* {k: (v if not pd.isna(v) else 0)}: only NaN is replaced, an infinity stays
NaNToZero(v) == IF IsNaN(v) THEN Zero ELSE v

career_row(player_id, player_matches) ==
    LET S(col) == SumOver(player_matches, col)
    IN  [player_id |-> player_id,
         matches_played |-> Len(player_matches),
         win_rate |-> NaNToZero(Mean(player_matches, "won")),
         hard_win_rate |-> NaNToZero(Mean(Where(player_matches, "surface", "Hard"), "won")),
         clay_win_rate |-> NaNToZero(Mean(Where(player_matches, "surface", "Clay"), "won")),
         grass_win_rate |-> NaNToZero(Mean(Where(player_matches, "surface", "Grass"), "won")),
         grand_slam_win_rate |-> NaNToZero(Mean(Where(player_matches, "level", "G"), "won")),
         masters_win_rate |-> NaNToZero(Mean(Where(player_matches, "level", "M"), "won")),
         first_serve_pct |-> NaNToZero(Div(S("first_in"), S("serve_pts"))),
         first_serve_won_pct |-> NaNToZero(Div(S("first_won"), S("first_in"))),
         second_serve_won_pct |->
             NaNToZero(Div(S("second_won"), S("serve_pts") - S("first_in"))),
         ace_rate |-> NaNToZero(Div(S("aces"), S("serve_games"))),
         double_fault_rate |-> NaNToZero(Div(S("dfs"), S("serve_games"))),
         break_points_per_game |-> NaNToZero(Div(S("bp_faced"), S("serve_games"))),
         break_point_save_pct |-> NaNToZero(Div(S("bp_saved"), S("bp_faced")))]

build_player_overall_stats(d) ==
    LET all == career_all_matches(d)
    IN  { career_row(p, PlayerGroup(all, p)) : p \in GroupKeys(all) }

\* -------------------------------------------------- build_player_recent_stats
recent_win(m) ==
    [player_id |-> m.winner_id, date |-> m.tourney_date,
     surface |-> m.surface, level |-> m.tourney_level,
     aces |-> m.w_ace, dfs |-> m.w_df, serve_pts |-> m.w_svpt, first_in |-> m.w_1stIn,
     first_won |-> m.w_1stWon, second_won |-> m.w_2ndWon, serve_games |-> m.w_SvGms,
     bp_saved |-> m.w_bpSaved, bp_faced |-> m.w_bpFaced, won |-> 1]
\* mutant of recent_loss: the loser's row is built from the winner's counters
recent_loss_w_columns(m) ==
    [player_id |-> m.loser_id, date |-> m.tourney_date,
     surface |-> m.surface, level |-> m.tourney_level,
     aces |-> m.w_ace, dfs |-> m.w_df, serve_pts |-> m.w_svpt, first_in |-> m.w_1stIn,
     first_won |-> m.w_1stWon, second_won |-> m.w_2ndWon, serve_games |-> m.w_SvGms,
     bp_saved |-> m.w_bpSaved, bp_faced |-> m.w_bpFaced, won |-> 0]

recent_loss(m) ==
    [player_id |-> m.loser_id, date |-> m.tourney_date,
     surface |-> m.surface, level |-> m.tourney_level,
     aces |-> m.l_ace, dfs |-> m.l_df, serve_pts |-> m.l_svpt, first_in |-> m.l_1stIn,
     first_won |-> m.l_1stWon, second_won |-> m.l_2ndWon, serve_games |-> m.l_SvGms,
     bp_saved |-> m.l_bpSaved, bp_faced |-> m.l_bpFaced, won |-> 0]

\* all_matches = pd.concat([wins, losses]), before the sort
recent_all_matches(d) ==
    [i \in DOMAIN d |-> recent_win(d[i])] \o [i \in DOMAIN d |-> recent_loss(d[i])]

\* date order of sort_values: ascending, NaT last
DateBefore(a, b) == ~IsNull(a) /\ (IsNull(b) \/ a < b)

RECURSIVE InsertByDate(_, _)
\* o goes after every row that does not sort after it: the sort is stable
InsertByDate(s, o) ==
    IF s = <<>> THEN <<o>>
    ELSE IF DateBefore(o.date, s[1].date) THEN <<o>> \o s
    ELSE <<s[1]>> \o InsertByDate(Tail(s), o)

\* mutant of SortByDate: the rows stay in the order of the concat
SortByDate_off(s) == s

RECURSIVE SortByDate(_)
\* all_matches.sort_values(['player_id', 'date']) restricted to one player:
\* a multi-key sort_values is a stable lexsort
SortByDate(s) ==
    IF s = <<>> THEN <<>>
    ELSE InsertByDate(SortByDate(SubSeq(s, 1, Len(s) - 1)), s[Len(s)])

\* mutant of tail: the window is not truncated
tail_all(s, n) == s

\* DataFrame.tail(n)
tail(s, n) == IF Len(s) <= n THEN s ELSE SubSeq(s, Len(s) - n + 1, Len(s))

ValidDates(s) == { s[i].date : i \in DOMAIN s } \ {NULL}
\* Series.max() / min() skip NaT; NaT when nothing is left
MaxDate(s) ==
    IF ValidDates(s) = {} THEN NULL
    ELSE CHOOSE x \in ValidDates(s) : \A y \in ValidDates(s) : y <= x
MinDate(s) ==
    IF ValidDates(s) = {} THEN NULL
    ELSE CHOOSE x \in ValidDates(s) : \A y \in ValidDates(s) : x <= y

\* mutant of FromDate: the date cutoff is not applied
FromDate_off(s, min_date) == s

\* type_matches[type_matches['date'] >= min_date]: a comparison with NaT is False
FromDate(s, min_date) ==
    LET Recent(o) == ~IsNull(o.date) /\ ~IsNull(min_date) /\ o.date >= min_date
    IN  SelectSeq(s, Recent)

get_recent_type_stats(player_matches, column, value, n_matches, min_date) ==
    LET type_matches == FromDate(Where(player_matches, column, value), min_date)
        recent_matches == tail(type_matches, n_matches)
    IN  IF Len(recent_matches) = 0
        THEN [rate |-> Zero, matches |-> 0]
        ELSE [rate |-> Mean(recent_matches, "won"), matches |-> Len(recent_matches)]

\* round(date_range.days / 365.25, 1): days * 40 / 1461 is never half-way
\* between two integers, so the nearest tenth is unambiguous
years_active(player_matches) ==
    IF IsNull(MaxDate(player_matches)) THEN NaN
    ELSE LET days == MaxDate(player_matches) - MinDate(player_matches)
         IN  Div((days * 80 + 1461) \div 2922, 10)

recent_row(player_id, player_matches, n_matches) ==
    LET min_date ==
            IF IsNull(MaxDate(player_matches)) THEN NULL
            ELSE MaxDate(player_matches) - max_years_gap * DaysPerYear
        T(column, value) ==
            get_recent_type_stats(player_matches, column, value, n_matches, min_date)
        recent_matches == tail(player_matches, n_matches)
        S(col) == SumOver(recent_matches, col)
        some == Len(recent_matches) > 0
    IN  [player_id |-> player_id,
         matches_used |-> Len(recent_matches),
         total_matches |-> Len(player_matches),
         years_active |-> years_active(player_matches),
         recent_win_rate |-> Mean(recent_matches, "won"),
         recent_hard_win_rate |-> T("surface", "Hard").rate,
         recent_hard_matches |-> T("surface", "Hard").matches,
         recent_clay_win_rate |-> T("surface", "Clay").rate,
         recent_clay_matches |-> T("surface", "Clay").matches,
         recent_grass_win_rate |-> T("surface", "Grass").rate,
         recent_grass_matches |-> T("surface", "Grass").matches,
         recent_grand_slam_win_rate |-> T("level", "G").rate,
         recent_grand_slam_matches |-> T("level", "G").matches,
         recent_masters_win_rate |-> T("level", "M").rate,
         recent_masters_matches |-> T("level", "M").matches,
         first_serve_pct |->
             IF some THEN Div(S("first_in"), S("serve_pts")) ELSE Zero,
         first_serve_won_pct |->
             IF some /\ S("first_in") > 0
             THEN Div(S("first_won"), S("first_in")) ELSE Zero,
         second_serve_won_pct |->
             IF some /\ S("serve_pts") - S("first_in") > 0
             THEN Div(S("second_won"), S("serve_pts") - S("first_in")) ELSE Zero,
         ace_rate |->
             IF some /\ S("serve_games") > 0
             THEN Div(S("aces"), S("serve_games")) ELSE Zero,
         double_fault_rate |->
             IF some /\ S("serve_games") > 0
             THEN Div(S("dfs"), S("serve_games")) ELSE Zero,
         break_points_per_game |->
             IF some /\ S("serve_games") > 0
             THEN Div(S("bp_faced"), S("serve_games")) ELSE Zero,
         break_point_save_pct |->
             IF some /\ S("bp_faced") > 0
             THEN Div(S("bp_saved"), S("bp_faced")) ELSE Zero]

\* the rows of one player after the sort and the groupby
recent_player_matches(d, p) == SortByDate(PlayerGroup(recent_all_matches(d), p))

build_player_recent_stats(d, n_matches) ==
    { recent_row(p, recent_player_matches(d, p), n_matches) :
        p \in GroupKeys(recent_all_matches(d)) }

\* ---------------------------------------------------------------- actions
\* download_data.py: the local files download_file is asked for, and the
\* state of one of them: whether it exists and how many chunks it holds
Paths == {"atp_matches_2023.csv", "atp_matches_2024.csv"}
Absent == [exists |-> FALSE, size |-> 0]
Present(n) == [exists |-> TRUE, size |-> n]
\* no download_file call has been made; partial collects the paths at which
\* a run has been interrupted before the whole body was written
NoDownload ==
    [pc |-> "idle", path |-> "atp_matches_2023.csv", existed |-> FALSE,
     requests |-> 0, body |-> 0, written |-> 0, exc |-> "none", ret |-> "none",
     partial |-> {}]
DownloadIdle == fs = [p \in Paths |-> Absent] /\ dl = NoDownload

\* build_all_features: the three feature sets, each with its own store file
SetNames == {"h2h", "player_stats", "player_recent"}
\* the state of one store file: absent, holding a table under its key,
\* unreadable, or readable without the key
NoStore == [state |-> "absent", rows |-> {}]
Stored(rows) == [state |-> "valid", rows |-> rows]
Corrupt == [state |-> "corrupt", rows |-> {}]
NoKey == [state |-> "nokey", rows |-> {}]
\* no build_all_features call has been made and no store file exists
CacheIdle ==
    /\ missing = {}
    /\ force = FALSE
    /\ caller = "other"
    /\ phase = "idle"
    /\ store = [n \in SetNames |-> NoStore]
    /\ invoked = [n \in SetNames |-> 0]
    /\ loaded = {}
    /\ log = <<>>

\* the executions of build_all_features that share the h2h store file
Procs == {"A", "B"}
\* an execution that has not reached the h2h block
NotStarted ==
    [pc |-> "start", force |-> FALSE, table |-> {},
     seen |-> [state |-> "none", rows |-> {}]]
\* no execution is running and the h2h store file does not exist
WriteIdle ==
    /\ proc = [p \in Procs |-> NotStarted]
    /\ h5 = NoStore
    /\ handles = {}
    /\ writers = {}

Init ==
    /\ DownloadIdle
    /\ CacheIdle
    /\ WriteIdle
    /\ df \in Datasets
    /\ h2h = NotBuilt
    /\ stats = NotBuilt
    /\ recent = NotBuilt
    /\ raised = FALSE

\* build_all_features, step 1.  On an empty table the matchup frame has no
\* columns and the groupby raises KeyError.
BuildH2H ==
    /\ ~h2h.built
    /\ ~raised
    /\ IF df = <<>>
       THEN raised' = TRUE /\ h2h' = h2h
       ELSE raised' = raised /\ h2h' = Table(build_head_to_head_features(df))
    /\ UNCHANGED <<df, stats, recent>>
    /\ UNCHANGED <<downloadVars, cacheVars, writeVars>>

\* build_all_features, step 2
BuildStats ==
    /\ h2h.built
    /\ ~stats.built
    /\ stats' = Table(build_player_overall_stats(df))
    /\ UNCHANGED <<df, h2h, recent, raised>>
    /\ UNCHANGED <<downloadVars, cacheVars, writeVars>>

\* build_all_features, step 3.  n_matches is the builder's window parameter.
BuildRecent ==
    /\ stats.built
    /\ ~recent.built
    /\ \E n_matches \in 1..MaxN :
          recent' = [built |-> TRUE, n_matches |-> n_matches,
                     rows |-> build_player_recent_stats(df, n_matches)]
    /\ UNCHANGED <<df, h2h, stats, raised>>
    /\ UNCHANGED <<downloadVars, cacheVars, writeVars>>

Next == BuildH2H \/ BuildStats \/ BuildRecent

Spec == Init /\ [][Next]_vars

\* the same program started on a table that was not validated
InitRaw ==
    /\ DownloadIdle
    /\ CacheIdle
    /\ WriteIdle
    /\ df \in RawDatasets
    /\ h2h = NotBuilt
    /\ stats = NotBuilt
    /\ recent = NotBuilt
    /\ raised = FALSE

SpecRaw == InitRaw /\ [][Next]_vars

\* ======================================================================
\* download_data.py: download_file(url, local_path)
\* ======================================================================
\* no feature table is being built
FeaturesIdle ==
    /\ df = <<>>
    /\ h2h = NotBuilt
    /\ stats = NotBuilt
    /\ recent = NotBuilt
    /\ raised = FALSE

\* files left by earlier runs: absent, or present with any number of chunks
InitDownload ==
    /\ FeaturesIdle
    /\ CacheIdle
    /\ WriteIdle
    /\ fs \in [Paths -> {Absent} \cup {Present(n) : n \in 0..MaxChunks}]
    /\ dl = NoDownload

\* mutant of cleanup: the handler leaves the file where it is
cleanup_off(f, p) == f

\* if os.path.exists(local_path): os.remove(local_path)
cleanup(f, p) == IF f[p].exists THEN [f EXCEPT ![p] = Absent] ELSE f

\* entry of download_file: an existing local file is not downloaded again
DownloadCall(p) ==
    /\ dl.pc \in {"idle", "returned", "killed"}
    /\ dl' = IF fs[p].exists
             THEN [NoDownload EXCEPT !.pc = "returned", !.path = p,
                                     !.existed = TRUE, !.ret = "True",
                                     !.partial = dl.partial]
             ELSE [NoDownload EXCEPT !.pc = "get", !.path = p,
                                     !.partial = dl.partial]
    /\ UNCHANGED <<fs, featureVars, cacheVars, writeVars>>

\* requests.get(url, stream=True, timeout=30) and raise_for_status(): the
\* response announces a body of some chunks, or the request fails
RequestGet ==
    /\ dl.pc = "get"
    /\ \/ \E n \in 0..MaxChunks :
            dl' = [dl EXCEPT !.pc = "open", !.requests = @ + 1, !.body = n]
       \/ \E e \in {"Timeout", "RequestException"} :
            dl' = [dl EXCEPT !.pc = "except", !.requests = @ + 1, !.exc = e]
    /\ UNCHANGED <<fs, featureVars, cacheVars, writeVars>>

\* open(local_path, 'wb') creates the file empty, or fails with OSError
OpenFile ==
    /\ dl.pc = "open"
    /\ \/ /\ fs' = [fs EXCEPT ![dl.path] = Present(0)]
          /\ dl' = [dl EXCEPT !.pc = "write"]
       \/ /\ fs' = fs
          /\ dl' = [dl EXCEPT !.pc = "except", !.exc = "Exception"]
    /\ UNCHANGED <<featureVars, cacheVars, writeVars>>

\* one turn of the loop over r.iter_content: the chunk is written, or the
\* stream breaks (a RequestException) or the write fails (an OSError)
WriteChunk ==
    /\ dl.pc = "write"
    /\ dl.written < dl.body
    /\ \/ /\ fs' = [fs EXCEPT ![dl.path] = Present(@.size + 1)]
          /\ dl' = [dl EXCEPT !.written = @ + 1]
       \/ /\ fs' = fs
          /\ \E e \in {"RequestException", "Exception"} :
                dl' = [dl EXCEPT !.pc = "except", !.exc = e]
    /\ UNCHANGED <<featureVars, cacheVars, writeVars>>

\* the loop is exhausted, both with-blocks close, return True
DownloadComplete ==
    /\ dl.pc = "write"
    /\ dl.written = dl.body
    /\ dl' = [dl EXCEPT !.pc = "returned", !.ret = "True"]
    /\ UNCHANGED <<fs, featureVars, cacheVars, writeVars>>

\* the three except clauses: remove the file if it exists, return False
DownloadExcept ==
    /\ dl.pc = "except"
    /\ fs' = cleanup(fs, dl.path)
    /\ dl' = [dl EXCEPT !.pc = "returned", !.ret = "False"]
    /\ UNCHANGED <<featureVars, cacheVars, writeVars>>

\* the run is interrupted or killed inside the loop over iter_content:
\* KeyboardInterrupt and SystemExit are not Exception, so no except clause
\* runs and the chunks written so far stay at local_path
DownloadInterrupt ==
    /\ dl.pc = "write"
    /\ dl.written < dl.body
    /\ dl' = [dl EXCEPT !.pc = "killed", !.partial = @ \cup {dl.path}]
    /\ UNCHANGED <<fs, featureVars, cacheVars, writeVars>>

NextDownload ==
    \/ \E p \in Paths : DownloadCall(p)
    \/ DownloadInterrupt
    \/ RequestGet
    \/ OpenFile
    \/ WriteChunk
    \/ DownloadComplete
    \/ DownloadExcept

SpecDownload == InitDownload /\ [][NextDownload]_vars

\* ======================================================================
\* build_features.py: build_all_features(df, force_recompute) and its
\* feature store; main.py: steps 3 and 4
\* ======================================================================
\* the data frames build_all_features is called with: the match table and
\* the columns it lacks
OneMatch == <<Match(1, 2, 0, HardSlam, RegularServe, RegularServe)>>
TwoMatches ==
    <<Match(1, 2, 0, HardSlam, RegularServe, RegularServe),
      Match(2, 1, 400, ClayMasters, RegularServe, RegularServe)>>
Frames ==
    { [df |-> <<>>, missing |-> {}],
      [df |-> OneMatch, missing |-> {}],
      [df |-> TwoMatches, missing |-> {}],
      [df |-> OneMatch, missing |-> {"surface"}],
      [df |-> OneMatch, missing |-> {"tourney_date"}] }

\* build_player_recent_stats(df) is called with its default n_matches
DefaultN == MaxN

\* whether the builder of a feature set raises: the matchup groupby on a
\* frame without rows, the column selection on a frame without the column
builder_raises(name, d, miss) ==
    CASE name = "h2h" -> d = <<>>
      [] name = "player_stats" -> "surface" \in miss
      [] name = "player_recent" -> miss # {}

\* the table the builder of a feature set returns
builder(name, d) ==
    CASE name = "h2h" -> build_head_to_head_features(d)
      [] name = "player_stats" -> build_player_overall_stats(d)
      [] name = "player_recent" -> build_player_recent_stats(d, DefaultN)

\* the outcome of the block of one feature set: whether it raised, the
\* table it assigned, the store file it left, how often it called the
\* builder and whether the table came from the store
Outcome(r, rows, st, n, l) ==
    [raised |-> r, rows |-> rows, store |-> st, invocations |-> n, loaded |-> l]

\* mutant of Raise: the exception is swallowed and the block ends
Raise_swallowed(st, n) == Outcome(FALSE, {}, st, n, FALSE)

\* except Exception as e: print(...); raise
Raise(st, n) == Outcome(TRUE, {}, st, n, FALSE)

\* mutant of must_build: force_recompute is ignored
must_build_unforced(forced, st) == st.state = "absent"

\* if force_recompute or not path.exists()
must_build(forced, st) == forced \/ st.state = "absent"

\* mutant of put_if_not_empty: nothing is written
put_nothing(st, rows) == st

\* if table is not None and not table.empty: HDFStore(path, mode='w').put
put_if_not_empty(st, rows) == IF rows # {} THEN Stored(rows) ELSE st

\* the forced or missing-store path: build, then persist a non-empty table
build_and_put(name, d, miss, st) ==
    IF builder_raises(name, d, miss)
    THEN Raise(st, 1)
    ELSE Outcome(FALSE, builder(name, d), put_if_not_empty(st, builder(name, d)),
                 1, FALSE)

\* mutant of rebuild_and_put: the failure of the read is passed on
rebuild_failed(name, d, miss, st, n) == Raise(st, n)

\* the inner except clause: build and persist whatever the builder returns;
\* n counts the builder calls of the block, this one included
rebuild_and_put(name, d, miss, st, n) ==
    IF builder_raises(name, d, miss)
    THEN Raise(st, n)
    ELSE Outcome(FALSE, builder(name, d), Stored(builder(name, d)), n, FALSE)

\* the store file exists and no recomputation is forced.  A file without
\* the key is rebuilt while it is still open for reading: the second open,
\* in mode 'w', is refused by some builds of the HDF5 library (reopen_raises)
\* and the inner except clause then builds once more.
load_or_rebuild(name, d, miss, st, reopen_raises) ==
    CASE st.state = "valid" -> Outcome(FALSE, st.rows, st, 0, TRUE)
      [] st.state = "corrupt" -> rebuild_and_put(name, d, miss, st, 1)
      [] st.state = "nokey" ->
            IF builder_raises(name, d, miss) \/ reopen_raises
            THEN rebuild_and_put(name, d, miss, st, 2)
            ELSE Outcome(FALSE, builder(name, d), Stored(builder(name, d)), 1, FALSE)

\* the block of one feature set in build_all_features
get_or_build(name, d, miss, forced, st, reopen_raises) ==
    IF must_build(forced, st)
    THEN build_and_put(name, d, miss, st)
    ELSE load_or_rebuild(name, d, miss, st, reopen_raises)

\* store files left by earlier runs: absent, unreadable or without the key
InitialStores ==
    { [n \in SetNames |-> st] : st \in {NoStore, Corrupt, NoKey} }
    \cup { [n \in SetNames |->
                CASE n = "h2h" -> NoStore
                  [] n = "player_stats" -> Corrupt
                  [] n = "player_recent" -> NoKey] }

InitCache ==
    /\ FeaturesIdle
    /\ DownloadIdle
    /\ WriteIdle
    /\ missing = {}
    /\ force = FALSE
    /\ caller = "other"
    /\ phase = "idle"
    /\ store \in InitialStores
    /\ invoked = [n \in SetNames |-> 0]
    /\ loaded = {}
    /\ log = <<>>

\* a call of build_all_features.  main (step 3) passes the cleaned table,
\* which has rows and a tourney_date column, and no force_recompute.
CallBuildAllFeatures(f, forced, who) ==
    /\ phase \in {"idle", "returned", "failed", "trained"}
    /\ Len(log) < MaxCalls
    /\ who = "main" => ~forced /\ f.df # <<>> /\ "tourney_date" \notin f.missing
    /\ df' = f.df
    /\ missing' = f.missing
    /\ force' = forced
    /\ caller' = who
    /\ phase' = "building"
    /\ h2h' = NotBuilt
    /\ stats' = NotBuilt
    /\ recent' = NotBuilt
    /\ raised' = FALSE
    /\ loaded' = {}
    /\ log' = Append(log, [df |-> f.df, missing |-> f.missing, force |-> forced,
                           store |-> store, invoked |-> invoked])
    /\ UNCHANGED <<store, invoked, downloadVars, writeVars>>

\* what the block of feature set name leaves in the store and the counters
BlockEffect(name, g) ==
    /\ raised' = g.raised
    /\ store' = [store EXCEPT ![name] = g.store]
    /\ invoked' = [invoked EXCEPT ![name] = @ + g.invocations]
    /\ loaded' = IF g.loaded THEN loaded \cup {name} ELSE loaded
    /\ UNCHANGED <<df, missing, force, caller, phase, log, downloadVars, writeVars>>

\* the h2h block
GetH2H ==
    /\ phase = "building"
    /\ ~raised
    /\ ~h2h.built
    /\ \E reopen_raises \in BOOLEAN :
        LET g == get_or_build("h2h", df, missing, force, store["h2h"], reopen_raises)
        IN  /\ BlockEffect("h2h", g)
            /\ h2h' = IF g.raised THEN h2h ELSE Table(g.rows)
    /\ UNCHANGED <<stats, recent>>

\* the player_stats block
GetStats ==
    /\ phase = "building"
    /\ ~raised
    /\ h2h.built
    /\ ~stats.built
    /\ \E reopen_raises \in BOOLEAN :
        LET g == get_or_build("player_stats", df, missing, force,
                              store["player_stats"], reopen_raises)
        IN  /\ BlockEffect("player_stats", g)
            /\ stats' = IF g.raised THEN stats ELSE Table(g.rows)
    /\ UNCHANGED <<h2h, recent>>

\* the player_recent block
GetRecent ==
    /\ phase = "building"
    /\ ~raised
    /\ stats.built
    /\ ~recent.built
    /\ \E reopen_raises \in BOOLEAN :
        LET g == get_or_build("player_recent", df, missing, force,
                              store["player_recent"], reopen_raises)
        IN  /\ BlockEffect("player_recent", g)
            /\ recent' = IF g.raised THEN recent
                         ELSE [built |-> TRUE, n_matches |-> DefaultN, rows |-> g.rows]
    /\ UNCHANGED <<h2h, stats>>

\* return h2h, stats, recent
ReturnTables ==
    /\ phase = "building"
    /\ recent.built
    /\ phase' = "returned"
    /\ UNCHANGED <<featureVars, downloadVars, writeVars, missing, force, caller, store,
                   invoked, loaded, log>>

\* the names of the tables in the returned tuple
ReturnedTables == {"h2h", "player_stats", "player_recent"}

\* the exception leaves build_all_features; in main the except clause of
\* step 3 prints the error and returns
Propagate ==
    /\ phase = "building"
    /\ raised
    /\ phase' = "failed"
    /\ UNCHANGED <<featureVars, downloadVars, writeVars, missing, force, caller, store,
                   invoked, loaded, log>>

\* main, step 4: model training on the returned tables
TrainModel ==
    /\ phase = "returned"
    /\ caller = "main"
    /\ phase' = "trained"
    /\ UNCHANGED <<featureVars, downloadVars, writeVars, missing, force, caller, store,
                   invoked, loaded, log>>

NextCache ==
    \/ \E f \in Frames, forced \in BOOLEAN, who \in {"main", "other"} :
            CallBuildAllFeatures(f, forced, who)
    \/ GetH2H
    \/ GetStats
    \/ GetRecent
    \/ ReturnTables
    \/ Propagate
    \/ TrainModel

SpecCache == InitCache /\ [][NextCache]_vars

\* ======================================================================
\* build_features.py: the h2h block of build_all_features, statement by
\* statement, in executions that share the store file
\* ======================================================================
\* the table of each execution's data frame, and the table a previous run
\* left in the store
TableOfProc(p) ==
    IF p = "A" THEN build_head_to_head_features(OneMatch)
    ELSE build_head_to_head_features(TwoMatches)
PriorTable == build_head_to_head_features(Scenario)

InitWrite ==
    /\ FeaturesIdle
    /\ DownloadIdle
    /\ CacheIdle
    /\ proc \in [Procs -> {[NotStarted EXCEPT !.force = f] : f \in BOOLEAN}]
    /\ h5 \in {NoStore, Stored(PriorTable)}
    /\ handles = {}
    /\ writers = {}

\* if force_recompute or not h2h_path.exists()
EnterBlock(p) ==
    /\ proc[p].pc = "start"
    /\ proc' = [proc EXCEPT ![p].pc =
                    IF must_build(proc[p].force, h5) THEN "build" ELSE "open_r"]
    /\ UNCHANGED <<h5, handles, writers>>
    /\ UNCHANGED <<featureVars, downloadVars, cacheVars>>

\* HDFStore(h2h_path, mode='r'), '/h2h' in store, store.get('h2h').  While
\* another execution holds the file open the library may refuse the open
\* (file locking is a property of the HDF5 build); a refused open, an
\* unreadable file and a file without the key all lead to the builder.
OpenRead(p) ==
    /\ proc[p].pc = "open_r"
    /\ \/ /\ handles # {}
          /\ proc' = [proc EXCEPT ![p].pc = "build"]
       \/ proc' = [proc EXCEPT
                     ![p].seen = h5,
                     ![p].table = IF h5.state = "valid" THEN h5.rows ELSE @,
                     ![p].pc = IF h5.state = "valid" THEN "done" ELSE "build"]
    /\ UNCHANGED <<h5, handles, writers>>
    /\ UNCHANGED <<featureVars, downloadVars, cacheVars>>

\* h2h = build_head_to_head_features(df)
RunBuilder(p) ==
    /\ proc[p].pc = "build"
    /\ proc' = [proc EXCEPT ![p].table = TableOfProc(p), ![p].pc = "open_w"]
    /\ UNCHANGED <<h5, handles, writers>>
    /\ UNCHANGED <<featureVars, downloadVars, cacheVars>>

\* HDFStore(h2h_path, mode='w'): the file is created or truncated.  While
\* another execution holds the file open the library may refuse the open;
\* the exception then leaves build_all_features.
OpenWrite(p) ==
    /\ proc[p].pc = "open_w"
    /\ \/ /\ handles # {}
          /\ proc' = [proc EXCEPT ![p].pc = "raised"]
          /\ UNCHANGED <<h5, handles, writers>>
       \/ /\ proc' = [proc EXCEPT ![p].pc = "put"]
          /\ h5' = NoKey
          /\ handles' = handles \cup {p}
          /\ writers' = IF handles = {} THEN {p} ELSE writers \cup {p}
    /\ UNCHANGED <<featureVars, downloadVars, cacheVars>>

\* store.put('h2h', h2h, format='fixed'): the table is on its way to the
\* file, which is not a complete store before it is closed
PutTable(p) ==
    /\ proc[p].pc = "put"
    /\ proc' = [proc EXCEPT ![p].pc = "close"]
    /\ h5' = Corrupt
    /\ UNCHANGED <<handles, writers>>
    /\ UNCHANGED <<featureVars, downloadVars, cacheVars>>

\* leaving the with-block closes the store.  What a file holds that two
\* executions have written through separate handles is not defined: it is
\* the table of the one that closes, or unreadable.
CloseStore(p) ==
    /\ proc[p].pc = "close"
    /\ proc' = [proc EXCEPT ![p].pc = "done"]
    /\ handles' = handles \ {p}
    /\ \/ h5' = Stored(proc[p].table)
       \/ writers # {p} /\ h5' = Corrupt
    /\ UNCHANGED writers
    /\ UNCHANGED <<featureVars, downloadVars, cacheVars>>

\* the execution is killed while it holds the file open for writing
Interrupt(p) ==
    /\ proc[p].pc \in {"put", "close"}
    /\ proc' = [proc EXCEPT ![p].pc = "killed"]
    /\ handles' = handles \ {p}
    /\ UNCHANGED <<h5, writers>>
    /\ UNCHANGED <<featureVars, downloadVars, cacheVars>>

NextWrite ==
    \/ \E p \in Procs : EnterBlock(p)
    \/ \E p \in Procs : OpenRead(p)
    \/ \E p \in Procs : RunBuilder(p)
    \/ \E p \in Procs : OpenWrite(p)
    \/ \E p \in Procs : PutTable(p)
    \/ \E p \in Procs : CloseStore(p)
    \/ \E p \in Procs : Interrupt(p)

SpecWrite == InitWrite /\ [][NextWrite]_vars

\* ======================================================================
\* Properties
\* ======================================================================
\* counts taken directly from the match table
Involves(m, p) == m.winner_id = p \/ m.loser_id = p
Wins(p) == Cardinality({i \in DOMAIN df : df[i].winner_id = p})
Losses(p) == Cardinality({i \in DOMAIN df : df[i].loser_id = p})
Appearing ==
    ({df[i].winner_id : i \in DOMAIN df} \cup {df[i].loser_id : i \in DOMAIN df}) \ {NULL}
MetWins(a, b) ==
    Cardinality({i \in DOMAIN df : df[i].winner_id = a /\ df[i].loser_id = b})
ObsIn(p, col, value) ==
    Cardinality({i \in DOMAIN df : Involves(df[i], p) /\ df[i][col] = value})
WinsIn(p, col, value) ==
    Cardinality({i \in DOMAIN df : df[i].winner_id = p /\ df[i][col] = value})
Lo(a, b) == IF a < b THEN a ELSE b
Hi(a, b) == IF a < b THEN b ELSE a

RECURSIVE SumTotalMatches(_)
SumTotalMatches(rows) ==
    IF rows = {} THEN 0
    ELSE LET r == CHOOSE x \in rows : TRUE
         IN  r.total_matches + SumTotalMatches(rows \ {r})

\* C1: every head-to-head row has p1_wins + p2_wins = total_matches and
\* p1_win_pct + p2_win_pct = 1 (every input row has two distinct players).
C1_WinsSumToTotal ==
    h2h.built =>
        \A r \in h2h.rows :
            /\ r.p1_wins + r.p2_wins = r.total_matches
            /\ Add(r.p1_win_pct, r.p2_win_pct) = One

\* C2: p1_wins is the number of the pair's matches won by the smaller id,
\* p2_wins the number won by the larger id; the scenario's rows are
\* (A,B): total 2, 1 win each and (A,C): total 1, p1_wins 1, p1_win_pct 1.
C2_WinsBySide ==
    h2h.built =>
        /\ \A r \in h2h.rows :
            /\ r.p1_wins = MetWins(r.player1_id, r.player2_id)
            /\ r.p2_wins = MetWins(r.player2_id, r.player1_id)
        /\ df = Scenario =>
            /\ \E r \in h2h.rows :
                /\ r.player1_id = 1 /\ r.player2_id = 2
                /\ r.total_matches = 2 /\ r.p1_wins = 1 /\ r.p2_wins = 1
            /\ \E r \in h2h.rows :
                /\ r.player1_id = 1 /\ r.player2_id = 3
                /\ r.total_matches = 1 /\ r.p1_wins = 1 /\ r.p1_win_pct = One

\* C3: exactly one head-to-head row per unordered pair of players who met,
\* with player1_id < player2_id; A-beats-B and B-beats-A fall in the same
\* row; the total_matches of all rows sum to the number of input matches.
C3_OneRowPerPair ==
    h2h.built =>
        /\ \A r \in h2h.rows : r.player1_id < r.player2_id
        /\ \A r, q \in h2h.rows :
            (r.player1_id = q.player1_id /\ r.player2_id = q.player2_id) => r = q
        /\ {<<r.player1_id, r.player2_id>> : r \in h2h.rows}
             = {<<Lo(df[i].winner_id, df[i].loser_id), Hi(df[i].winner_id, df[i].loser_id)>> :
                    i \in DOMAIN df}
        /\ \A r \in h2h.rows :
            r.total_matches = MetWins(r.player1_id, r.player2_id)
                                + MetWins(r.player2_id, r.player1_id)
        /\ SumTotalMatches(h2h.rows) = Len(df)

\* two pairs have met, one of them with a win on each side
C3_Witness ==
    /\ h2h.built
    /\ Cardinality(h2h.rows) >= 2
    /\ \E r \in h2h.rows :
        /\ MetWins(r.player1_id, r.player2_id) >= 1
        /\ MetWins(r.player2_id, r.player1_id) >= 1

\* C4: the career table has exactly one row for every player id that appears
\* as winner or loser, and matches_played = rows as winner + rows as loser.
C4_OneRowPerPlayer ==
    stats.built =>
        /\ {r.player_id : r \in stats.rows} = Appearing
        /\ Cardinality(stats.rows) = Cardinality(Appearing)
        /\ \A r \in stats.rows :
            r.matches_played = Wins(r.player_id) + Losses(r.player_id)

\* three players, one who both won and lost and one who only lost
C4_Witness ==
    /\ stats.built
    /\ Cardinality(stats.rows) = 3
    /\ \E r \in stats.rows : Wins(r.player_id) >= 1 /\ Losses(r.player_id) >= 1
    /\ \E r \in stats.rows : Wins(r.player_id) = 0

\* C5: a career ratio whose summed denominator is zero is exactly 0, also
\* when its summed numerator is not zero; never NaN or infinite.
C5_CareerZeroDenominator ==
    stats.built =>
        \A r \in stats.rows :
            LET g == PlayerGroup(career_all_matches(df), r.player_id)
                S(col) == SumOver(g, col)
            IN  /\ S("serve_pts") = 0 => r.first_serve_pct = Zero
                /\ S("first_in") = 0 => r.first_serve_won_pct = Zero
                /\ S("serve_pts") - S("first_in") = 0 => r.second_serve_won_pct = Zero
                /\ S("serve_games") = 0 =>
                    /\ r.ace_rate = Zero
                    /\ r.double_fault_rate = Zero
                    /\ r.break_points_per_game = Zero
                /\ S("bp_faced") = 0 => r.break_point_save_pct = Zero

\* C6: a recent-form ratio over the overall-recent window is exactly 0
\* whenever its summed denominator over that window is zero.
C6_RecentZeroDenominator ==
    recent.built =>
        \A r \in recent.rows :
            LET g == tail(recent_player_matches(df, r.player_id), recent.n_matches)
                S(col) == SumOver(g, col)
            IN  /\ S("serve_pts") = 0 => r.first_serve_pct = Zero
                /\ S("first_in") = 0 => r.first_serve_won_pct = Zero
                /\ S("serve_pts") - S("first_in") = 0 => r.second_serve_won_pct = Zero
                /\ S("serve_games") = 0 =>
                    /\ r.ace_rate = Zero
                    /\ r.double_fault_rate = Zero
                    /\ r.break_points_per_game = Zero
                /\ S("bp_faced") = 0 => r.break_point_save_pct = Zero

RestrictedRate(p, col, value) ==
    IF ObsIn(p, col, value) = 0 THEN Zero
    ELSE Div(WinsIn(p, col, value), ObsIn(p, col, value))

\* C7: win_rate = wins / matches_played and every surface or level rate is
\* the player's wins among the observations of that surface or level over
\* their number, 0 when there is none; in the scenario A has
\* matches_played 3, win_rate 2/3, hard_win_rate 1, clay_win_rate 0.
C7_CareerWinRates ==
    stats.built =>
        /\ \A r \in stats.rows :
            /\ r.win_rate = Div(Wins(r.player_id), r.matches_played)
            /\ r.hard_win_rate = RestrictedRate(r.player_id, "surface", "Hard")
            /\ r.clay_win_rate = RestrictedRate(r.player_id, "surface", "Clay")
            /\ r.grass_win_rate = RestrictedRate(r.player_id, "surface", "Grass")
            /\ r.grand_slam_win_rate = RestrictedRate(r.player_id, "tourney_level", "G")
            /\ r.masters_win_rate = RestrictedRate(r.player_id, "tourney_level", "M")
        /\ df = Scenario =>
            \E r \in stats.rows :
                /\ r.player_id = 1
                /\ r.matches_played = 3
                /\ r.win_rate = Div(2, 3)
                /\ r.hard_win_rate = One
                /\ r.clay_win_rate = Zero

\* the scenario's table: A has won on Hard, lost on Clay, never played on Grass
C7_Witness ==
    /\ stats.built
    /\ df = Scenario
    /\ \E r \in stats.rows :
        /\ r.player_id = 1
        /\ ObsIn(1, "surface", "Clay") = 1
        /\ ObsIn(1, "surface", "Grass") = 0
        /\ r.grass_win_rate = Zero

CategoryCounts(r) ==
    << <<"surface", "Hard", r.recent_hard_matches>>,
       <<"surface", "Clay", r.recent_clay_matches>>,
       <<"surface", "Grass", r.recent_grass_matches>>,
       <<"tourney_level", "G", r.recent_grand_slam_matches>>,
       <<"tourney_level", "M", r.recent_masters_matches>> >>

\* C8: every recent_<category>_matches count is at most n_matches and at
\* most the number of the player's observations in that category.
C8_RecentCountBounds ==
    recent.built =>
        \A r \in recent.rows :
            \A k \in DOMAIN CategoryCounts(r) :
                LET c == CategoryCounts(r)[k]
                IN  /\ c[3] <= recent.n_matches
                    /\ c[3] <= ObsIn(r.player_id, c[1], c[2])

\* a player with more Hard observations than n_matches (the window is cut)
\* and a player whose Clay count is below both bounds (the date cutoff)
C8_Witness ==
    /\ recent.built
    /\ \E r \in recent.rows :
        /\ ObsIn(r.player_id, "surface", "Hard") > recent.n_matches
        /\ r.recent_hard_matches = recent.n_matches
    /\ \E r \in recent.rows :
        /\ r.recent_clay_matches < recent.n_matches
        /\ r.recent_clay_matches < ObsIn(r.player_id, "surface", "Clay")

\* the columns an observation shares with its match, winner side
IsWinObs(o, m) ==
    /\ o.player_id = m.winner_id /\ o.won = 1
    /\ o.surface = m.surface /\ o.level = m.tourney_level
    /\ o.aces = m.w_ace /\ o.dfs = m.w_df /\ o.serve_pts = m.w_svpt
    /\ o.first_in = m.w_1stIn /\ o.first_won = m.w_1stWon /\ o.second_won = m.w_2ndWon
    /\ o.serve_games = m.w_SvGms /\ o.bp_saved = m.w_bpSaved /\ o.bp_faced = m.w_bpFaced
\* the same, loser side
IsLossObs(o, m) ==
    /\ o.player_id = m.loser_id /\ o.won = 0
    /\ o.surface = m.surface /\ o.level = m.tourney_level
    /\ o.aces = m.l_ace /\ o.dfs = m.l_df /\ o.serve_pts = m.l_svpt
    /\ o.first_in = m.l_1stIn /\ o.first_won = m.l_1stWon /\ o.second_won = m.l_2ndWon
    /\ o.serve_games = m.l_SvGms /\ o.bp_saved = m.l_bpSaved /\ o.bp_faced = m.l_bpFaced
HasDateOf(o, m) == "date" \in DOMAIN o /\ o.date = m.tourney_date

MissingId(m) == IsNull(m.winner_id) \/ IsNull(m.loser_id)
MissingDate(m) == IsNull(m.tourney_date)

\* C10: when a match row that reaches the career or recent aggregator lacks
\* a player id (or, for the recent aggregator, a date), normalization raises.
C10_MissingFieldRaises ==
    /\ (stats.built /\ \E i \in DOMAIN df : MissingId(df[i])) => raised
    /\ (recent.built /\ \E i \in DOMAIN df : MissingId(df[i]) \/ MissingDate(df[i]))
          => raised

\* the observations of player p, read off the match table: one per row the
\* player takes part in
PlayerObs(p) ==
    { [row |-> i, won |-> IF df[i].winner_id = p THEN 1 ELSE 0,
       date |-> df[i].tourney_date, surface |-> df[i].surface,
       tourney_level |-> df[i].tourney_level] :
        i \in {j \in DOMAIN df : Involves(df[j], p)} }
LatestDate(obs) == CHOOSE x \in {o.date : o \in obs} : \A o \in obs : o.date <= x
Cutoff(p) == LatestDate(PlayerObs(p)) - max_years_gap * DaysPerYear
\* the observations among obs in a category and not older than the cutoff
FilteredOf(obs, col, value, cutoff) ==
    { o \in obs : o[col] = value /\ o.date >= cutoff }
Filtered(p, col, value) == FilteredOf(PlayerObs(p), col, value, Cutoff(p))
Min2(a, b) == IF a < b THEN a ELSE b
WonIn(w) == Cardinality({o \in w : o.won = 1})
\* w holds the last k of the observations obs in ascending date order
IsLastK(w, obs, k) ==
    /\ w \subseteq obs
    /\ Cardinality(w) = Min2(k, Cardinality(obs))
    /\ \A o \in w : \A x \in obs \ w : x.date <= o.date

CategoryStats(r) ==
    << <<"surface", "Hard", r.recent_hard_win_rate, r.recent_hard_matches>>,
       <<"surface", "Clay", r.recent_clay_win_rate, r.recent_clay_matches>>,
       <<"surface", "Grass", r.recent_grass_win_rate, r.recent_grass_matches>>,
       <<"tourney_level", "G", r.recent_grand_slam_win_rate, r.recent_grand_slam_matches>>,
       <<"tourney_level", "M", r.recent_masters_win_rate, r.recent_masters_matches>> >>

\* C19: per player and category, (win rate, count) are taken over exactly
\* the last n_matches, in ascending date order, of the observations that
\* match the category and have date >= the player's cutoff; (0, 0) when
\* there is no such observation.
C19_CategoryWindow ==
    recent.built =>
        \A r \in recent.rows :
            LET obs == PlayerObs(r.player_id)
                cutoff == LatestDate(obs) - max_years_gap * DaysPerYear
                cs == CategoryStats(r)
            IN  \A k \in DOMAIN cs :
                    LET f == FilteredOf(obs, cs[k][1], cs[k][2], cutoff)
                    IN  IF f = {}
                        THEN cs[k][3] = Zero /\ cs[k][4] = 0
                        ELSE \E w \in SUBSET f :
                                /\ IsLastK(w, f, recent.n_matches)
                                /\ cs[k][4] = Cardinality(w)
                                /\ cs[k][3] = Div(WonIn(w), Cardinality(w))

\* a player whose Hard observations are cut by the date cutoff and then by
\* the window, and a player without any Grass observation
C19_Witness ==
    /\ recent.built
    /\ \E r \in recent.rows :
        /\ Cardinality(Filtered(r.player_id, "surface", "Hard")) > recent.n_matches
        /\ ObsIn(r.player_id, "surface", "Hard")
             > Cardinality(Filtered(r.player_id, "surface", "Hard"))
        /\ r.recent_hard_matches = recent.n_matches
        /\ r.recent_grass_matches = 0

\* C20: the overall recent window is the player's last
\* min(n_matches, total_matches) observations in ascending date order, with
\* no date cutoff; matches_used is that number and recent_win_rate the wins
\* over matches_used among exactly those observations.
C20_OverallWindow ==
    recent.built =>
        \A r \in recent.rows :
            LET obs == PlayerObs(r.player_id)
            IN  /\ r.total_matches = Cardinality(obs)
                /\ r.matches_used = Min2(recent.n_matches, r.total_matches)
                /\ \E w \in SUBSET obs :
                    /\ IsLastK(w, obs, recent.n_matches)
                    /\ r.recent_win_rate = Div(WonIn(w), r.matches_used)

\* a player with more observations than n_matches whose window reaches
\* back before the cutoff date
C20_Witness ==
    /\ recent.built
    /\ \E r \in recent.rows :
        /\ r.total_matches > recent.n_matches
        /\ r.matches_used = recent.n_matches
        /\ \A w \in SUBSET PlayerObs(r.player_id) :
            IsLastK(w, PlayerObs(r.player_id), recent.n_matches)
                => \E o \in w : o.date < Cutoff(r.player_id)

\* C18: download_file makes no request and returns True when the local file
\* exists; otherwise it returns True only with the whole body written to the
\* file, and every timeout, request error or other exception ends in False
\* with no file left at local_path.
C18_DownloadFile ==
    dl.pc = "returned" =>
        /\ dl.existed => dl.requests = 0 /\ dl.ret = "True"
        /\ (~dl.existed /\ dl.ret = "True") =>
              /\ dl.exc = "none"
              /\ fs[dl.path] = Present(dl.body)
              /\ dl.written = dl.body
        /\ dl.exc # "none" => dl.ret = "False"
        /\ dl.ret = "False" => ~fs[dl.path].exists

\* a download that failed after a chunk had reached the file
C18_Witness ==
    /\ dl.pc = "returned"
    /\ dl.ret = "False"
    /\ dl.written > 0
    /\ ~fs[dl.path].exists

\* the table variable of a feature set, the call in progress, the builder
\* calls made by it, and whether the block of a feature set has run in it
TableOf(name) ==
    CASE name = "h2h" -> h2h
      [] name = "player_stats" -> stats
      [] name = "player_recent" -> recent
LastCall == log[Len(log)]
InvokedInCall(name) == invoked[name] - LastCall.invoked[name]
Ran(name) == InvokedInCall(name) > 0 \/ name \in loaded
Later(name) ==
    CASE name = "h2h" -> {"player_stats", "player_recent"}
      [] name = "player_stats" -> {"player_recent"}
      [] name = "player_recent" -> {}
SameCallTwice ==
    /\ Len(log) = 2
    /\ log[1].store = [n \in SetNames |-> NoStore]
    /\ ~log[1].force
    /\ ~log[2].force
    /\ log[1].df = log[2].df
    /\ log[1].missing = log[2].missing

\* C11: from an empty feature store, when build_all_features(df,
\* force_recompute=False) has returned for the second time, the builder of
\* every feature set has been invoked exactly once in total and the second
\* call has returned the table loaded from the store.
C11_CacheRoundTrip ==
    (SameCallTwice /\ phase \in {"returned", "trained"}) =>
        \A name \in SetNames :
            /\ invoked[name] = 1
            /\ name \in loaded
            /\ store[name] = Stored(TableOf(name).rows)
            /\ TableOf(name).rows = builder(name, df)

\* C11 as stated, for every dataset: when the second of the two calls has
\* ended, by a return or by an exception, every builder has been invoked
\* exactly once in total and the table came from the store.
C11_EveryDataset ==
    (SameCallTwice /\ phase \in {"returned", "trained", "failed"}) =>
        \A name \in SetNames : invoked[name] = 1 /\ name \in loaded

\* the second of two equal calls has returned all three tables
C11_Witness ==
    /\ SameCallTwice
    /\ phase = "returned"
    /\ loaded = SetNames
    /\ h2h.rows # {}

\* C12: with force_recompute=True every block that has run over an existing
\* store file has invoked its builder, has assigned the newly computed
\* table, and has left that table in the store.
C12_ForceRecompute ==
    (phase # "idle" /\ force) =>
        \A name \in SetNames :
            (LastCall.store[name].state # "absent" /\ TableOf(name).built) =>
                /\ InvokedInCall(name) = 1
                /\ TableOf(name).rows = builder(name, df)
                /\ store[name] = Stored(TableOf(name).rows)

\* a forced call has replaced a valid stored table by a different one
C12_Witness ==
    /\ phase = "returned"
    /\ force
    /\ \A name \in SetNames :
        /\ LastCall.store[name].state = "valid"
        /\ LastCall.store[name].rows # TableOf(name).rows
        /\ store[name] = Stored(TableOf(name).rows)

\* C13: without force_recompute, a block that has run over a store file
\* that is unreadable or lacks the key, and whose builder does not raise,
\* has assigned the recomputed table and persisted it under the same name:
\* the read error is not passed on.
C13_UnreadableStoreRecomputed ==
    (phase # "idle" /\ ~force) =>
        \A name \in SetNames :
            ( /\ LastCall.store[name].state \in {"corrupt", "nokey"}
              /\ Ran(name)
              /\ ~builder_raises(name, df, missing) ) =>
                /\ TableOf(name).built
                /\ TableOf(name).rows = builder(name, df)
                /\ store[name] = Stored(TableOf(name).rows)

\* a call has returned over an unreadable file and over a file without the
\* key, the latter rebuilt after the second open was refused
C13_Witness ==
    /\ phase = "returned"
    /\ ~force
    /\ LastCall.store["player_stats"].state = "corrupt"
    /\ LastCall.store["player_recent"].state = "nokey"
    /\ InvokedInCall("player_recent") = 2
    /\ \A name \in SetNames : store[name].state = "valid"

\* C16: when the builder of a feature set has raised in the call, the
\* exception is on its way to the caller or has reached it: the set has no
\* table, no later block has run, no tuple has been returned and main has
\* not trained a model.
C16_AggregatorFailurePropagates ==
    phase # "idle" =>
        \A name \in SetNames :
            (InvokedInCall(name) > 0 /\ builder_raises(name, df, missing)) =>
                /\ raised
                /\ phase \in {"building", "failed"}
                /\ ~TableOf(name).built
                /\ \A later \in Later(name) :
                    ~Ran(later) /\ ~TableOf(later).built

\* main has stopped on a career builder that raised while rebuilding an
\* unreadable store file
C16_Witness ==
    /\ caller = "main"
    /\ phase = "failed"
    /\ raised
    /\ h2h.built
    /\ LastCall.store["player_stats"].state = "corrupt"
    /\ InvokedInCall("player_stats") = 1

\* C17: the tables build_all_features returns include a rolling
\* time-window table.
C17_RollingTableReturned ==
    phase \in {"returned", "trained"} => "rolling" \in ReturnedTables

\* the tables a reader of the h2h store may see complete
CompleteTables == {PriorTable} \cup {TableOfProc(p) : p \in Procs}

\* C14: replacing the persisted table is atomic: whatever an execution
\* reads from the store file, also after a write that was interrupted, is
\* the complete prior table or a complete new one.
C14_AtomicReplace ==
    \A p \in Procs :
        proc[p].seen.state # "none" =>
            proc[p].seen.state = "valid" /\ proc[p].seen.rows \in CompleteTables

\* an execution between the call of its builder and the close of its store
InRecomputePersist(p) == proc[p].pc \in {"open_w", "put", "close"}
Finished(p) == proc[p].pc \in {"done", "raised", "killed"}

\* C15: the recompute-then-persist steps of two executions are mutually
\* exclusive, and when both have ended after a recomputation the store
\* holds the complete table of one of them.
C15_MutualExclusion ==
    /\ \A p, q \in Procs :
        (p # q /\ InRecomputePersist(p)) => ~InRecomputePersist(q)
    /\ (\A p \in Procs : proc[p].pc = "done" /\ p \in writers) =>
            h5.state = "valid" /\ h5.rows \in {TableOfProc(p) : p \in Procs}

\* C21: within one call of build_all_features the builder of every feature
\* set is invoked at most once, whichever path its block takes.
C21_BuilderInvokedAtMostOnce ==
    phase # "idle" => \A name \in SetNames : InvokedInCall(name) <= 1

\* C24: the tables build_all_features returns are the tables the three
\* builders compute from the data frame of that call.
C24_ReturnedTablesOfOwnFrame ==
    phase \in {"returned", "trained"} =>
        \A name \in SetNames :
            ~builder_raises(name, df, missing) =>
                TableOf(name).rows = builder(name, df)

\* C25: when build_all_features has returned, the store file of every
\* feature set exists and holds the table returned for the set, an empty
\* table included.
C25_StoreHoldsReturnedTables ==
    phase \in {"returned", "trained"} =>
        \A name \in SetNames : store[name] = Stored(TableOf(name).rows)

\* C26: when build_all_features has raised, every store file is as it was
\* when the call began.
C26_FailedCallLeavesStore ==
    phase = "failed" => store = LastCall.store

\* the match tables that hold the rows of d in another order
Permutations(d) ==
    { [i \in DOMAIN d |-> d[f[i]]] :
        f \in { g \in [DOMAIN d -> DOMAIN d] : \A i, j \in DOMAIN d : g[i] = g[j] => i = j } }

\* C22: the head-to-head table is the same for every order of the input
\* match rows.
C22_H2HOrderIndependent ==
    h2h.built =>
        \A e \in Permutations(df) : build_head_to_head_features(e) = h2h.rows

\* C23: the recent-statistics table is the same for every order of the
\* input match rows, also when observations share the date at the window
\* boundary.
C23_RecentOrderIndependent ==
    recent.built =>
        \A e \in Permutations(df) :
            build_player_recent_stats(e, recent.n_matches) = recent.rows

\* C27: a run of download_file that skips the download because the file
\* exists does so only for a completely downloaded file, also after a run
\* that was interrupted while writing.
C27_SkipOnlyCompleteFile ==
    (dl.pc = "returned" /\ dl.existed) => dl.path \notin dl.partial

====
